---- MODULE Spec2Model ----
(***************************************************************************)
(* Model of wopr-plugin-provider-opencode (src/src/index.ts).              *)
(*                                                                         *)
(* One OpencodeClient instance (its cached backend handle and session id), *)
(* the module-level OpencodeSDK cache, the query async generator of each   *)
(* query invocation with its consumer, the backend behind the SDK facade   *)
(* (session.create, session.prompt, global.health), the client's           *)
(* healthCheck and listModels, the provider's validateCredentials, and the *)
(* plugin's init and shutdown with the host they register with.  Every     *)
(* await and every yield of the source is a step boundary; the code        *)
(* between two of them is one atomic step.                                 *)
(***************************************************************************)
EXTENDS Naturals, Sequences, FiniteSets, TLC

\* ------------------------------------------------------------------ bounds

\* Number of query invocations made on the client instance.
MaxQueries == 3
\* Number of query generators the consumers hold at a time.
MaxOverlap == 2
\* Longest parts array a prompt response carries.
MaxParts == 2
\* Number of healthCheck calls made on the client instance.
MaxHealthChecks == 1
\* Longest images array of a request.
MaxImages == 2
\* Longest tools array of an A2A server, and longest allowedTools array.
MaxTools == 2
\* Number of init calls the host makes on the plugin.
MaxInits == 2

\* The generator objects held at a time; a finished one makes room for the
\* generator of a later invocation.
Procs == 1..MaxOverlap

\* ------------------------------------------------------- JavaScript values

Null == "<null>"
Undefined == "<undefined>"

\* JavaScript truthiness of a string-or-null value, as `!v` reads it.
Falsy(v) == v = Null \/ v = Undefined \/ v = ""

\* a ?? b
Coalesce(a, b) == IF a = Null \/ a = Undefined THEN b ELSE a

\* ------------------------------------------------------ backend responses

\* Values the backend facade can throw: an Error object or a bare string.
Thrown == { [isError |-> TRUE, message |-> "ECONNREFUSED", value |-> Undefined],
            [isError |-> FALSE, message |-> Undefined, value |-> "boom"] }

NoThrow == [isError |-> FALSE, message |-> Undefined, value |-> Undefined]

\* Ids session.create can return (the empty string included).
SessionIds == {"s1", "s2", ""}

\* session.create resolves to { data?: { id } } or throws.  kind "nodata" is
\* a response without the data field; id Undefined is data without an id.
CreateResponses ==
    { [kind |-> "throw", thrown |-> t, id |-> Undefined] : t \in Thrown }
    \cup { [kind |-> "nodata", thrown |-> NoThrow, id |-> Undefined] }
    \cup { [kind |-> "data", thrown |-> NoThrow, id |-> i] :
             i \in SessionIds \cup {Undefined} }

NoSession == [kind |-> "none", thrown |-> NoThrow, id |-> Undefined]

\* Parts of a prompt response: { type, text?, name? }
Parts == { [type |-> "text", text |-> "Hi", name |-> Undefined],
           [type |-> "tool_use", text |-> Undefined, name |-> "read"],
           [type |-> "tool_call", text |-> Undefined, name |-> "bash"],
           [type |-> "reasoning", text |-> "hm", name |-> Undefined] }

RECURSIVE SeqsUpTo(_, _)
SeqsUpTo(S, n) ==
    IF n = 0 THEN { <<>> }
    ELSE LET shorter == SeqsUpTo(S, n - 1)
         IN  shorter \cup { Append(s, x) : s \in shorter, x \in S }

PartSeqs == SeqsUpTo(Parts, MaxParts)

\* session.prompt resolves to { data?: { parts } } or throws.  hasParts
\* FALSE is data whose parts field is missing.
PromptResponses ==
    { [kind |-> "throw", thrown |-> t, hasParts |-> FALSE, parts |-> <<>>] :
             t \in Thrown }
    \cup { [kind |-> "nodata", thrown |-> NoThrow, hasParts |-> FALSE,
            parts |-> <<>>] }
    \cup { [kind |-> "data", thrown |-> NoThrow, hasParts |-> FALSE,
            parts |-> <<>>] }
    \cup { [kind |-> "data", thrown |-> NoThrow, hasParts |-> TRUE,
            parts |-> p] : p \in PartSeqs }

NoResponse == [kind |-> "none", thrown |-> NoThrow, hasParts |-> FALSE,
               parts |-> <<>>]

\* global.health resolves to { data?: { healthy } } or throws.  healthy is
\* "true", "false" or Undefined (data without the flag).
HealthResponses ==
    { [kind |-> "throw", thrown |-> t, healthy |-> Undefined] : t \in Thrown }
    \cup { [kind |-> "nodata", thrown |-> NoThrow, healthy |-> Undefined] }
    \cup { [kind |-> "data", thrown |-> NoThrow, healthy |-> h] :
             h \in {"true", "false", Undefined} }

NoHealth == [kind |-> "none", thrown |-> NoThrow, healthy |-> Undefined]

\* --------------------------------------------------------------- requests

\* An optional array of opts: left out, or given with its elements in order.
NoList == [given |-> FALSE, list |-> << >>]

GivenList(l) == [given |-> TRUE, list |-> l]

\* opts of a query with a prompt and nothing else.  a2aServers is the object
\* as Object.entries enumerates it: its entries (server name, names of its
\* tools) in order.
PlainRequest ==
    [prompt |-> "Hello", model |-> Undefined, images |-> NoList,
     a2aServers |-> NoList, allowedTools |-> NoList]

ModelIds == { Undefined, Null, "", "claude-3-5-haiku", "gpt-4o", "gpt4",
              "o1-mini", "o3", "o", "gemini-1.5-pro", "gemini", "llama-3" }

Urls == { "a.png", "b.png" }

ServerNames == { "s1", "s2" }

ServerToolNames == { "read", "write" }

AllowedToolNames == { "read", "mcp__s1__read" }

ServerConfigs ==
    { [name |-> n, tools |-> t] :
        n \in ServerNames, t \in SeqsUpTo(ServerToolNames, MaxTools) }

\* The entries of an object: no server name twice.
ServerLists ==
    { l \in SeqsUpTo(ServerConfigs, Cardinality(ServerNames)) :
        \A i, j \in 1..Len(l) : l[i].name = l[j].name => i = j }

ModelRequests == { [PlainRequest EXCEPT !.model = m] : m \in ModelIds }

ImageRequests ==
    { [PlainRequest EXCEPT !.images = i] :
        i \in { NoList } \cup { GivenList(l) : l \in SeqsUpTo(Urls, MaxImages) } }

ToolRequests ==
    { [PlainRequest EXCEPT !.a2aServers = a, !.allowedTools = t] :
        a \in { NoList } \cup { GivenList(l) : l \in ServerLists },
        t \in { NoList }
               \cup { GivenList(l) : l \in SeqsUpTo(AllowedToolNames, MaxTools) } }

\* The requests the consumers make of query.
Requests == ModelRequests \cup ImageRequests \cup ToolRequests

\* ------------------------------------------------------------------- host

\* The host contexts init can be given.
Hosts == { "hostA", "hostB" }

\* A call the plugin makes on a host context, and whether the host threw.
HostCall(op, c, name, threw) ==
    [op |-> op, ctx |-> c, name |-> name, threw |-> threw]

NoPluginCall == [op |-> "none", raised |-> FALSE]

\* ------------------------------------------------------------------ state

VARIABLES
    OpencodeSDK,   \* module-level SDK cache: TRUE once the import succeeded
    client,        \* this.client: 0 (undefined) or the handle constructed
    nHandles,      \* backend handles this client instance has constructed
    sessionId,     \* this.sessionId
    nQueries,      \* query invocations made so far
    inv,           \* the invocation each generator belongs to (0: none yet)
    pc,            \* position of each query invocation's generator
    lclient,       \* the `client` constant of each query invocation
    acquired,      \* how each invocation got its session: created / reused
    createResp,    \* the response session.create returned to each invocation
    promptResp,    \* the response session.prompt returned to each invocation
    rest,          \* parts of the prompt response not yet visited by the loop
    events,        \* events each invocation has yielded, in order
    raised,        \* errors each invocation has raised to its consumer
    calls,         \* backend calls issued by the client, in order
    opts,          \* the request (opts) of each query invocation
    sdkMisses,     \* the query invocations whose SDK import failed
    vcPc,          \* position of validateCredentials
    vcResp,        \* the health response validateCredentials last received
    vcOutcome,     \* what validateCredentials last returned
    nHealth,       \* healthCheck calls made so far
    hcPc,          \* position of healthCheck
    hcClient,      \* the `client` constant of healthCheck
    hcResp,        \* the health response healthCheck last received
    hcOutcome,     \* what healthCheck last returned
    models,        \* what listModels last returned (<< >>: not called)
    ctx,           \* module-level ctx: Null or the host context of init
    cleanups,      \* module-level cleanups array
    host,          \* calls the plugin has made on host contexts, in order
    nInits,        \* init calls made so far
    lastCall       \* the plugin entry point last called and how it ended

vars == << OpencodeSDK, client, nHandles, sessionId, nQueries, inv, opts,
           sdkMisses, pc, lclient, acquired, createResp, promptResp, rest,
           events, raised, calls, vcPc, vcResp, vcOutcome, nHealth, hcPc,
           hcClient, hcResp, hcOutcome, models, ctx, cleanups, host, nInits,
           lastCall >>

clientVars == << client, nHandles, sessionId >>
queryVars == << nQueries, inv, opts,
                    sdkMisses, pc, lclient, acquired,
                createResp, promptResp, rest, events, raised, calls >>
vcVars == << vcPc, vcResp, vcOutcome >>
hcVars == << nHealth, hcPc, hcClient, hcResp, hcOutcome >>
pluginVars == << ctx, cleanups, host, nInits, lastCall >>
nonQueryVars == << vcVars, hcVars, models, pluginVars >>

Init ==
    /\ OpencodeSDK = FALSE
    /\ client = 0
    /\ nHandles = 0
    /\ sessionId = Null
    /\ nQueries = 0
    /\ inv = [q \in Procs |-> 0]
    /\ pc = [q \in Procs |-> "idle"]
    /\ lclient = [q \in Procs |-> 0]
    /\ acquired = [q \in Procs |-> "none"]
    /\ createResp = [q \in Procs |-> NoSession]
    /\ promptResp = [q \in Procs |-> NoResponse]
    /\ rest = [q \in Procs |-> <<>>]
    /\ events = [q \in Procs |-> <<>>]
    /\ raised = [q \in Procs |-> <<>>]
    /\ calls = <<>>
    /\ opts = [q \in Procs |-> PlainRequest]
    /\ sdkMisses = { }
    /\ vcPc = "idle"
    /\ vcResp = NoHealth
    /\ vcOutcome = "none"
    /\ nHealth = 0
    /\ hcPc = "idle"
    /\ hcClient = 0
    /\ hcResp = NoHealth
    /\ hcOutcome = "none"
    /\ models = << >>
    /\ ctx = Null
    /\ cleanups = << >>
    /\ host = << >>
    /\ nInits = 0
    /\ lastCall = NoPluginCall

\* ----------------------------------------------------------------- events

\* Mutant: the init event is built before the new id is stored.
InitEventBeforeStore(sid) ==
    [type |-> "system", subtype |-> "init", session_id |-> Null]

InitEvent(sid) == [type |-> "system", subtype |-> "init", session_id |-> sid]

AssistantText(text) ==
    [type |-> "assistant",
     message |-> [content |-> << [type |-> "text", text |-> text] >>]]

AssistantToolUse(name) ==
    [type |-> "assistant",
     message |-> [content |-> << [type |-> "tool_use", name |-> name] >>]]

ResultEvent == [type |-> "result", subtype |-> "success", total_cost_usd |-> 0]

\* Mutant: the loop knows tool_use parts only, not tool_call parts.
TranslatePartToolUseOnly(part) ==
    IF part.type = "text" THEN << AssistantText(part.text) >>
    ELSE IF part.type = "tool_use"
         THEN << AssistantToolUse(part.name) >>
         ELSE << >>

\* The body of the for loop over resultParts for one part: the events it
\* yields (one or none).
TranslatePart(part) ==
    IF part.type = "text" THEN << AssistantText(part.text) >>
    ELSE IF part.type = "tool_use" \/ part.type = "tool_call"
         THEN << AssistantToolUse(part.name) >>
         ELSE << >>

\* The loop runs on from `parts` without suspending while the parts yield
\* nothing: what is left when it reaches a part that yields, or the end.
RECURSIVE SkipSilent(_)
SkipSilent(parts) ==
    IF parts = << >> THEN << >>
    ELSE IF TranslatePart(Head(parts)) # << >> THEN parts
         ELSE SkipSilent(Tail(parts))

\* result.data.parts || []
ResultParts(resp) == IF resp.hasParts THEN resp.parts ELSE << >>

\* ----------------------------------------------------------------- errors

\* Mutant: the failed load is raised from inside the try of query.
SDKMissingTranslated ==
    "OpenCode query failed: OpenCode SDK not installed. Run: npm install @opencode-ai/sdk"

SDKMissingMessage == "OpenCode SDK not installed. Run: npm install @opencode-ai/sdk"

SessionFailedMessage == "Failed to create OpenCode session"

\* Mutant: error.message is read whatever was thrown.
ErrMessageUnguarded(thrown) == thrown.message

\* error instanceof Error ? error.message : String(error)
ErrMessage(thrown) == IF thrown.isError THEN thrown.message ELSE thrown.value

\* The error the catch block of query raises.
QueryFailed(message) == "OpenCode query failed: " \o message

\* Mutant: every query creates a session of its own.
NeedsSessionAlways == TRUE

\* Mutant: no second session.create while one is pending.
NeedsSessionSingleFlight ==
    /\ Falsy(sessionId)
    /\ \A i \in 1..Len(calls) :
           ~(calls[i].op = "create" /\ calls[i].outcome = "pending")

\* if (!this.sessionId): the client holds no session.
NeedsSession == Falsy(sessionId)

\* Mutant: the check after the creation is left out.
SessionMissingUnchecked(sid) == FALSE

\* if (!this.sessionId) after the creation: no id came back.
SessionMissing(sid) == Falsy(sid)

\* Mutant: the parts are read whether or not the response has data.
HasDataUnchecked(result) == TRUE

\* if (result.data)
HasData(result) == result.kind = "data"

\* Mutant: a creation without an id stores a placeholder id.
NewSessionIdPlaceholder(session) ==
    Coalesce(IF session.kind = "data" THEN session.id ELSE Undefined, "pending")

\* session.data?.id ?? null
NewSessionId(session) ==
    Coalesce(IF session.kind = "data" THEN session.id ELSE Undefined, Null)

\* --------------------------------------------------------- prompt request

DefaultModel == "claude-3-5-sonnet"

SupportedModels ==
    << "claude-3-5-sonnet", "claude-3-5-haiku", "gpt-4o", "gpt-4o-mini" >>

\* s.startsWith(prefix)
StartsWith(s, prefix) ==
    Len(s) >= Len(prefix) /\ SubSeq(s, 1, Len(prefix)) = prefix

\* Mutant: the o3 family is not known and falls to the default provider.
ResolveProviderIDWithoutO3(modelID) ==
    IF StartsWith(modelID, "gpt-") \/ StartsWith(modelID, "o1")
    THEN "openai"
    ELSE IF StartsWith(modelID, "gemini-") THEN "google" ELSE "anthropic"

ResolveProviderID(modelID) ==
    IF \/ StartsWith(modelID, "gpt-")
       \/ StartsWith(modelID, "o1")
       \/ StartsWith(modelID, "o3")
    THEN "openai"
    ELSE IF StartsWith(modelID, "gemini-") THEN "google" ELSE "anthropic"

\* opts.model ?? opencodeProvider.defaultModel
SelectedModel(o) == Coalesce(o.model, DefaultModel)

\* lines.join(sep)
RECURSIVE Join(_, _)
Join(lines, sep) ==
    IF lines = << >> THEN ""
    ELSE IF Len(lines) = 1 THEN lines[1]
         ELSE lines[1] \o sep \o Join(Tail(lines), sep)

\* Mutant: the images are numbered from the array index, from 0.
ImageLineFromZero(i, url) == "[Image " \o ToString(i) \o "]: " \o url

\* `[Image ${i + 1}]: ${url}` for the array index i (from 0).
ImageLine(i, url) == "[Image " \o ToString(i + 1) \o "]: " \o url

\* opts.images.map(...).join("\n")
ImageList(images) ==
    Join([k \in 1..Len(images) |-> ImageLine(k - 1, images[k])], "\n")

\* promptText
PromptText(o) ==
    IF o.images.given /\ Len(o.images.list) > 0
    THEN "[User has shared " \o ToString(Len(o.images.list)) \o " image(s)]\n"
         \o ImageList(o.images.list) \o "\n\n" \o o.prompt
    ELSE o.prompt

McpName(serverName, toolName) == "mcp__" \o serverName \o "__" \o toolName

\* for (const tool of config.tools) allTools.push(...)
RECURSIVE PushTools(_, _, _)
PushTools(allTools, serverName, tools) ==
    IF tools = << >> THEN allTools
    ELSE PushTools(Append(allTools, McpName(serverName, Head(tools))),
                   serverName, Tail(tools))

\* for (const [serverName, config] of Object.entries(opts.a2aServers))
RECURSIVE PushServers(_, _)
PushServers(allTools, entries) ==
    IF entries = << >> THEN allTools
    ELSE PushServers(PushTools(allTools, Head(entries).name, Head(entries).tools),
                     Tail(entries))

\* promptOptions.enabledTools after the a2aServers block: set, to the names
\* collected, when the object has a server; left out otherwise.
A2ATools(o) ==
    IF o.a2aServers.given /\ Len(o.a2aServers.list) > 0
    THEN GivenList(PushServers(<< >>, o.a2aServers.list))
    ELSE NoList

\* Mutant: allowedTools replace the A2A names instead of following them.
EnabledToolsAllowedReplace(o) ==
    IF o.allowedTools.given /\ Len(o.allowedTools.list) > 0
    THEN GivenList(o.allowedTools.list)
    ELSE A2ATools(o)

\* promptOptions.enabledTools after the allowedTools block (given FALSE: the
\* field is not set).
EnabledTools(o) ==
    IF o.allowedTools.given /\ Len(o.allowedTools.list) > 0
    THEN GivenList((IF A2ATools(o).given THEN A2ATools(o).list ELSE << >>)
                   \o o.allowedTools.list)
    ELSE A2ATools(o)

\* The body of the session.prompt call.
PromptOptions(o) ==
    [model |-> [providerID |-> ResolveProviderID(SelectedModel(o)),
                modelID |-> SelectedModel(o)],
     parts |-> << [type |-> "text", text |-> PromptText(o)] >>,
     enabledTools |-> EnabledTools(o)]

\* ------------------------------------------------------------ backend log

\* A call of invocation n on a backend handle: the session it addresses
\* (prompt), how it settled and the id it returned (create).
CreateCall(n, handle) ==
    [op |-> "create", inv |-> n, handle |-> handle, path |-> Undefined,
     outcome |-> "pending", returned |-> Undefined]

PromptCall(n, handle, sid, body) ==
    [op |-> "prompt", inv |-> n, handle |-> handle, path |-> sid,
     outcome |-> "pending", returned |-> Undefined, body |-> body]

\* An invocation calls each backend operation at most once.
CallIndex(n, op) ==
    CHOOSE i \in 1..Len(calls) : calls[i].inv = n /\ calls[i].op = op

Settled(n, op, resp) ==
    [calls EXCEPT ![CallIndex(n, op)].outcome =
                      IF resp.kind = "throw" THEN "rejected" ELSE "resolved",
                  ![CallIndex(n, op)].returned =
                      IF op = "create" /\ resp.kind = "data" THEN resp.id
                      ELSE Undefined]

\* ------------------------------------------------------------------ query

Finished(q) == pc[q] \in {"done", "failed", "returned"}

Suspended(q) == pc[q] \in {"yieldInit", "yieldPart", "yieldResult"}

Free(q) == pc[q] = "idle" \/ Finished(q)

\* client.query(o): a generator object is made; its body has not begun.
\* It takes the first free place among the generators held.
CallWith(q, o) ==
    /\ nQueries < MaxQueries
    /\ opts' = [opts EXCEPT ![q] = o]
    /\ Free(q)
    /\ \A r \in Procs : r < q => ~Free(r)
    /\ nQueries' = nQueries + 1
    /\ inv' = [inv EXCEPT ![q] = nQueries + 1]
    /\ pc' = [pc EXCEPT ![q] = "created"]
    /\ lclient' = [lclient EXCEPT ![q] = 0]
    /\ acquired' = [acquired EXCEPT ![q] = "none"]
    /\ createResp' = [createResp EXCEPT ![q] = NoSession]
    /\ promptResp' = [promptResp EXCEPT ![q] = NoResponse]
    /\ rest' = [rest EXCEPT ![q] = << >>]
    /\ events' = [events EXCEPT ![q] = << >>]
    /\ raised' = [raised EXCEPT ![q] = << >>]
    /\ UNCHANGED << OpencodeSDK, clientVars, sdkMisses, calls, nonQueryVars >>

\* client.query({ prompt }): a request with a prompt and nothing else.
Call(q) == CallWith(q, PlainRequest)

\* First next(): the body begins with this.getClient(), which runs to its
\* first await: the cached handle, the cached SDK, or the import.
Begin(q) ==
    /\ pc[q] = "created"
    /\ IF client # 0
       THEN /\ pc' = [pc EXCEPT ![q] = "gotClient"]
            /\ lclient' = [lclient EXCEPT ![q] = client]
       ELSE /\ pc' = [pc EXCEPT ![q] = IF OpencodeSDK THEN "loaded" ELSE "importing"]
            /\ UNCHANGED lclient
    /\ UNCHANGED << OpencodeSDK, clientVars, nQueries, inv, opts,
                    sdkMisses, acquired, createResp,
                    promptResp, rest, events, raised, calls, nonQueryVars >>

\* loadOpencodeSDK: import("@opencode-ai/sdk") settles.  A failed import is
\* raised as the missing-dependency error, outside the try of query.
ImportDone(q) ==
    /\ pc[q] = "importing"
    /\ \E ok \in BOOLEAN :
         IF ok
         THEN /\ OpencodeSDK' = TRUE
              /\ pc' = [pc EXCEPT ![q] = "loaded"]
              /\ UNCHANGED << raised, sdkMisses >>
         ELSE /\ pc' = [pc EXCEPT ![q] = "failed"]
              /\ raised' = [raised EXCEPT ![q] = Append(@, SDKMissingMessage)]
              /\ sdkMisses' = sdkMisses \cup { inv[q] }
              /\ UNCHANGED OpencodeSDK
    /\ UNCHANGED << clientVars, nQueries, inv, opts, lclient, acquired, createResp,
                    promptResp, rest, events, calls, nonQueryVars >>

\* Mutant: the handle constructed is returned but not kept in this.client.
ConstructUncached(q) ==
    /\ pc[q] = "loaded"
    /\ nHandles' = nHandles + 1
    /\ lclient' = [lclient EXCEPT ![q] = nHandles + 1]
    /\ pc' = [pc EXCEPT ![q] = "gotClient"]
    /\ UNCHANGED << OpencodeSDK, client, sessionId, nQueries, inv, opts,
                    sdkMisses, acquired, createResp, promptResp, rest, events,
                    raised, calls, nonQueryVars >>

\* getClient after loadOpencodeSDK: construct the handle, cache and return it.
Construct(q) ==
    /\ pc[q] = "loaded"
    /\ nHandles' = nHandles + 1
    /\ client' = nHandles + 1
    /\ lclient' = [lclient EXCEPT ![q] = nHandles + 1]
    /\ pc' = [pc EXCEPT ![q] = "gotClient"]
    /\ UNCHANGED << OpencodeSDK, sessionId, nQueries, inv, opts,
                    sdkMisses, acquired, createResp,
                    promptResp, rest, events, raised, calls, nonQueryVars >>

\* Mutant: the prompt is sent before the init event is yielded.
YieldInitAfterPrompt(q, sid, log) ==
    /\ events' = [events EXCEPT ![q] = Append(@, InitEvent(sid))]
    /\ pc' = [pc EXCEPT ![q] = "yieldInit"]
    /\ calls' = Append(log, PromptCall(inv[q], lclient[q], sid,
                                       PromptOptions(opts[q])))

\* yield { type: "system", subtype: "init", session_id }: the generator
\* suspends with the event handed to the consumer; nothing is sent to the
\* backend (log is the backend log as the step leaves it).
YieldInit(q, sid, log) ==
    /\ events' = [events EXCEPT ![q] = Append(@, InitEvent(sid))]
    /\ pc' = [pc EXCEPT ![q] = "yieldInit"]
    /\ calls' = log

\* Mutant: a call that reuses the session goes straight to the prompt and
\* yields no init event.
AcquireQuietReuse(q) ==
    /\ pc[q] = "gotClient"
    /\ IF NeedsSession
       THEN /\ calls' = Append(calls, CreateCall(inv[q], lclient[q]))
            /\ acquired' = [acquired EXCEPT ![q] = "creating"]
            /\ pc' = [pc EXCEPT ![q] = "creating"]
       ELSE /\ acquired' = [acquired EXCEPT ![q] = "reused"]
            /\ calls' = Append(calls, PromptCall(inv[q], lclient[q], sessionId,
                                                 PromptOptions(opts[q])))
            /\ pc' = [pc EXCEPT ![q] = "prompting"]
    /\ UNCHANGED << OpencodeSDK, clientVars, nQueries, inv, opts,
                    sdkMisses, lclient, createResp,
                    promptResp, rest, events, raised, nonQueryVars >>

\* After `await this.getClient()`: without a session, call session.create;
\* with one, run on to the yield of the init event.
Acquire(q) ==
    /\ pc[q] = "gotClient"
    /\ IF NeedsSession
       THEN /\ calls' = Append(calls, CreateCall(inv[q], lclient[q]))
            /\ acquired' = [acquired EXCEPT ![q] = "creating"]
            /\ pc' = [pc EXCEPT ![q] = "creating"]
            /\ UNCHANGED events
       ELSE /\ acquired' = [acquired EXCEPT ![q] = "reused"]
            /\ YieldInit(q, sessionId, calls)
    /\ UNCHANGED << OpencodeSDK, clientVars, nQueries, inv, opts,
                    sdkMisses, lclient, createResp,
                    promptResp, rest, raised, nonQueryVars >>

\* session.create settles: store the id, fail without one, yield init.
CreateReturn(q) ==
    /\ pc[q] = "creating"
    /\ \E session \in CreateResponses :
         /\ createResp' = [createResp EXCEPT ![q] = session]
         /\ IF session.kind = "throw"
            THEN /\ raised' = [raised EXCEPT ![q] =
                                 Append(@, QueryFailed(ErrMessage(session.thrown)))]
                 /\ pc' = [pc EXCEPT ![q] = "failed"]
                 /\ calls' = Settled(inv[q], "create", session)
                 /\ UNCHANGED << sessionId, acquired, events >>
            ELSE /\ sessionId' = NewSessionId(session)
                 /\ IF SessionMissing(NewSessionId(session))
                    THEN /\ raised' = [raised EXCEPT ![q] =
                                         Append(@, QueryFailed(SessionFailedMessage))]
                         /\ pc' = [pc EXCEPT ![q] = "failed"]
                         /\ calls' = Settled(inv[q], "create", session)
                         /\ UNCHANGED << acquired, events >>
                    ELSE /\ acquired' = [acquired EXCEPT ![q] = "created"]
                         /\ YieldInit(q, NewSessionId(session),
                                      Settled(inv[q], "create", session))
                         /\ UNCHANGED raised
    /\ UNCHANGED << OpencodeSDK, client, nHandles, nQueries, inv, opts,
                    sdkMisses, lclient,
                    promptResp, rest, nonQueryVars >>

\* next() while suspended at the init yield: build the prompt request and
\* call session.prompt on this.sessionId.
SendPrompt(q) ==
    /\ pc[q] = "yieldInit"
    /\ calls' = Append(calls, PromptCall(inv[q], lclient[q], sessionId,
                                         PromptOptions(opts[q])))
    /\ pc' = [pc EXCEPT ![q] = "prompting"]
    /\ UNCHANGED << OpencodeSDK, clientVars, nQueries, inv, opts,
                    sdkMisses, lclient, acquired,
                    createResp, promptResp, rest, events, raised, nonQueryVars >>

\* The loop from `parts` up to its next yield: an assistant event, or the
\* result event when no part is left.
YieldFrom(q, parts) ==
    LET left == SkipSilent(parts)
    IN  IF left = << >>
        THEN /\ events' = [events EXCEPT ![q] = Append(@, ResultEvent)]
             /\ rest' = [rest EXCEPT ![q] = << >>]
             /\ pc' = [pc EXCEPT ![q] = "yieldResult"]
        ELSE /\ events' = [events EXCEPT ![q] = @ \o TranslatePart(Head(left))]
             /\ rest' = [rest EXCEPT ![q] = Tail(left)]
             /\ pc' = [pc EXCEPT ![q] = "yieldPart"]

\* session.prompt settles: fail, finish silently without data, or start the
\* loop over the parts.
PromptReturn(q) ==
    /\ pc[q] = "prompting"
    /\ \E result \in PromptResponses :
         /\ promptResp' = [promptResp EXCEPT ![q] = result]
         /\ calls' = Settled(inv[q], "prompt", result)
         /\ IF result.kind = "throw"
            THEN /\ raised' = [raised EXCEPT ![q] =
                                 Append(@, QueryFailed(ErrMessage(result.thrown)))]
                 /\ pc' = [pc EXCEPT ![q] = "failed"]
                 /\ UNCHANGED << events, rest >>
            ELSE IF HasData(result)
                 THEN /\ YieldFrom(q, ResultParts(result))
                      /\ UNCHANGED raised
                 ELSE /\ pc' = [pc EXCEPT ![q] = "done"]
                      /\ UNCHANGED << events, rest, raised >>
    /\ UNCHANGED << OpencodeSDK, clientVars, nQueries, inv, opts,
                    sdkMisses, lclient, acquired,
                    createResp >>
    /\ UNCHANGED nonQueryVars

\* next() while suspended at an assistant yield: the loop goes on.
NextPart(q) ==
    /\ pc[q] = "yieldPart"
    /\ YieldFrom(q, rest[q])
    /\ UNCHANGED << OpencodeSDK, clientVars, nQueries, inv, opts,
                    sdkMisses, lclient, acquired,
                    createResp, promptResp, raised, calls, nonQueryVars >>

\* next() while suspended at the result yield: the generator completes.
Complete(q) ==
    /\ pc[q] = "yieldResult"
    /\ pc' = [pc EXCEPT ![q] = "done"]
    /\ UNCHANGED << OpencodeSDK, clientVars, nQueries, inv, opts,
                    sdkMisses, lclient, acquired,
                    createResp, promptResp, rest, events, raised, calls, nonQueryVars >>

\* return() by the consumer (break out of for await) before the body began
\* or while it is suspended at a yield: the generator finishes there.
Return(q) ==
    /\ pc[q] = "created" \/ Suspended(q)
    /\ pc' = [pc EXCEPT ![q] = "returned"]
    /\ UNCHANGED << OpencodeSDK, clientVars, nQueries, inv, opts,
                    sdkMisses, lclient, acquired,
                    createResp, promptResp, rest, events, raised, calls, nonQueryVars >>

\* ---------------------------------------------------- validateCredentials

\* health.data?.healthy === true
HealthyIsTrue(health) == health.kind = "data" /\ health.healthy = "true"

\* Mutant: the catch block reports failure, as healthCheck does.
VCCatchPessimistic == "false"

\* What the catch block of validateCredentials returns.
VCCatch == "true"

\* opencodeProvider.validateCredentials(credential) is called and runs to
\* the await in loadOpencodeSDK.
VCCall ==
    /\ vcPc \in {"idle", "done"}
    /\ vcPc' = IF OpencodeSDK THEN "loaded" ELSE "importing"
    /\ vcResp' = NoHealth
    /\ vcOutcome' = "none"
    /\ UNCHANGED << OpencodeSDK, clientVars, queryVars, hcVars, models,
                    pluginVars >>

\* The import settles; a failed one is thrown into the catch block.
VCImportDone ==
    /\ vcPc = "importing"
    /\ \E ok \in BOOLEAN :
         IF ok
         THEN /\ OpencodeSDK' = TRUE
              /\ vcPc' = "loaded"
              /\ UNCHANGED vcOutcome
         ELSE /\ vcPc' = "done"
              /\ vcOutcome' = VCCatch
              /\ UNCHANGED OpencodeSDK
    /\ UNCHANGED << clientVars, queryVars, vcResp, hcVars, models, pluginVars >>

\* A handle of its own is constructed and global.health() is called on it.
VCHealthCall ==
    /\ vcPc = "loaded"
    /\ vcPc' = "health"
    /\ UNCHANGED << OpencodeSDK, clientVars, queryVars, vcResp, vcOutcome,
                    hcVars, models, pluginVars >>

\* global.health() settles.
VCHealthReturn ==
    /\ vcPc = "health"
    /\ \E health \in HealthResponses :
         /\ vcResp' = health
         /\ vcOutcome' = IF health.kind = "throw" THEN VCCatch
                         ELSE IF HealthyIsTrue(health) THEN "true" ELSE "false"
    /\ vcPc' = "done"
    /\ UNCHANGED << OpencodeSDK, clientVars, queryVars, hcVars, models,
                    pluginVars >>

\* -------------------------------------------------------------- healthCheck

\* global.health() called by healthCheck on a backend handle.
HealthCall(handle) ==
    [op |-> "health", inv |-> 0, handle |-> handle, path |-> Undefined,
     outcome |-> "pending", returned |-> Undefined]

\* healthCheck calls do not overlap each other: one health call is pending.
HealthIndex ==
    CHOOSE i \in 1..Len(calls) :
        calls[i].op = "health" /\ calls[i].outcome = "pending"

\* Mutant: the catch block reports success, as validateCredentials does.
HCCatchOptimistic == "true"

\* What the catch block of healthCheck returns.
HCCatch == "false"

\* client.healthCheck() is called and runs to the first await of
\* this.getClient(): the cached handle, the cached SDK, or the import.
HCCall ==
    /\ nHealth < MaxHealthChecks
    /\ hcPc \in {"idle", "done"}
    /\ nHealth' = nHealth + 1
    /\ hcResp' = NoHealth
    /\ hcOutcome' = "none"
    /\ IF client # 0
       THEN /\ hcPc' = "gotClient"
            /\ hcClient' = client
       ELSE /\ hcPc' = IF OpencodeSDK THEN "loaded" ELSE "importing"
            /\ hcClient' = 0
    /\ UNCHANGED << OpencodeSDK, clientVars, queryVars, vcVars, models,
                    pluginVars >>

\* The import settles; a failed one is thrown into the catch block.
HCImportDone ==
    /\ hcPc = "importing"
    /\ \E ok \in BOOLEAN :
         IF ok
         THEN /\ OpencodeSDK' = TRUE
              /\ hcPc' = "loaded"
              /\ UNCHANGED hcOutcome
         ELSE /\ hcPc' = "done"
              /\ hcOutcome' = HCCatch
              /\ UNCHANGED OpencodeSDK
    /\ UNCHANGED << clientVars, queryVars, vcVars, nHealth, hcClient, hcResp,
                    models, pluginVars >>

\* getClient after loadOpencodeSDK: construct the handle, cache and return it.
HCConstruct ==
    /\ hcPc = "loaded"
    /\ nHandles' = nHandles + 1
    /\ client' = nHandles + 1
    /\ hcClient' = nHandles + 1
    /\ hcPc' = "gotClient"
    /\ UNCHANGED << OpencodeSDK, sessionId, queryVars, vcVars, nHealth, hcResp,
                    hcOutcome, models, pluginVars >>

\* After `await this.getClient()`: client.global.health() is called.
HCHealthCall ==
    /\ hcPc = "gotClient"
    /\ calls' = Append(calls, HealthCall(hcClient))
    /\ hcPc' = "health"
    /\ UNCHANGED << OpencodeSDK, clientVars, nQueries, inv, opts, sdkMisses,
                    pc, lclient, acquired, createResp, promptResp, rest,
                    events, raised, vcVars, nHealth, hcClient, hcResp,
                    hcOutcome, models, pluginVars >>

\* global.health() settles.
HCHealthReturn ==
    /\ hcPc = "health"
    /\ \E health \in HealthResponses :
         /\ hcResp' = health
         /\ hcOutcome' = IF health.kind = "throw" THEN HCCatch
                         ELSE IF HealthyIsTrue(health) THEN "true" ELSE "false"
         /\ calls' = [calls EXCEPT ![HealthIndex].outcome =
                         IF health.kind = "throw" THEN "rejected" ELSE "resolved"]
    /\ hcPc' = "done"
    /\ UNCHANGED << OpencodeSDK, clientVars, nQueries, inv, opts, sdkMisses,
                    pc, lclient, acquired, createResp, promptResp, rest,
                    events, raised, vcVars, nHealth, hcClient, models,
                    pluginVars >>

\* --------------------------------------------------------------- listModels

\* Mutant: the list is asked of the backend handle, constructed at need.
ListModelsViaClient ==
    /\ models' = SupportedModels
    /\ client' = IF client = 0 THEN nHandles + 1 ELSE client
    /\ nHandles' = IF client = 0 THEN nHandles + 1 ELSE nHandles
    /\ UNCHANGED << OpencodeSDK, sessionId, queryVars, vcVars, hcVars,
                    pluginVars >>

\* client.listModels(): no await in its body, it runs in one step.
ListModels ==
    /\ models' = SupportedModels
    /\ UNCHANGED << OpencodeSDK, clientVars, queryVars, vcVars, hcVars,
                    pluginVars >>

\* --------------------------------------------------------- init and shutdown

\* init(pluginCtx): the context is stored, the provider and then the config
\* schema are registered, a cleanup is pushed after each.  fails names the
\* registration the host throws in ("none": neither); init raises there.
PluginInit(c, fails) ==
    /\ nInits < MaxInits
    /\ nInits' = nInits + 1
    /\ ctx' = c
    /\ host' = host
          \o << HostCall("registerLLMProvider", c, "opencode", fails = "provider") >>
          \o (IF fails = "provider" THEN << >>
              ELSE << HostCall("registerConfigSchema", c, "provider-opencode",
                               fails = "schema") >>)
    /\ cleanups' = cleanups
          \o (IF fails = "provider" THEN << >> ELSE << "provider" >>)
          \o (IF fails = "none" THEN << "schema" >> ELSE << >>)
    /\ lastCall' = [op |-> "init", raised |-> fails # "none"]
    /\ UNCHANGED << OpencodeSDK, clientVars, queryVars, vcVars, hcVars, models >>

\* cleanups.reverse()
Reverse(s) == [i \in 1..Len(s) |-> s[Len(s) + 1 - i]]

\* What a cleanup calls: ctx?.unregisterLLMProvider("opencode") or
\* ctx?.unregisterConfigSchema("provider-opencode"), on the ctx of now.
Unregister(kind, c, threw) ==
    IF kind = "provider"
    THEN HostCall("unregisterLLMProvider", c, "opencode", threw)
    ELSE HostCall("unregisterConfigSchema", c, "provider-opencode", threw)

\* Mutant: no try around cleanup(); the loop ends at the first throw.
RunCleanupsToFirstThrow(cs, c, throws) ==
    IF c = Null THEN << >>
    ELSE LET all == [i \in 1..Len(cs) |-> Unregister(cs[i], c, throws[i])]
             thrown == { i \in 1..Len(cs) : throws[i] }
         IN  IF thrown = { } THEN all
             ELSE SubSeq(all, 1, CHOOSE i \in thrown : \A j \in thrown : i <= j)

\* for (const cleanup of cs) { try { cleanup(); } catch {} }: the host calls
\* made, with throws[i] telling whether the host throws in the i-th.
RunCleanups(cs, c, throws) ==
    IF c = Null THEN << >>
    ELSE [i \in 1..Len(cs) |-> Unregister(cs[i], c, throws[i])]

\* shutdown(): no await in its body, it runs in one step.
PluginShutdown ==
    /\ \E throws \in [1..Len(cleanups) -> BOOLEAN] :
         host' = host \o RunCleanups(Reverse(cleanups), ctx, throws)
    /\ cleanups' = << >>
    /\ ctx' = Null
    /\ lastCall' = [op |-> "shutdown", raised |-> FALSE]
    /\ UNCHANGED << OpencodeSDK, clientVars, queryVars, vcVars, hcVars, models,
                    nInits >>

\* ---------------------------------------------------------- specifications

\* No other invocation of query is between its call and its end.
NoneActive(q) == \A r \in Procs \ {q} : Free(r)

QueryStep(q) ==
    \/ Begin(q)
    \/ ImportDone(q)
    \/ Construct(q)
    \/ Acquire(q)
    \/ CreateReturn(q)
    \/ SendPrompt(q)
    \/ PromptReturn(q)
    \/ NextPart(q)
    \/ Complete(q)
    \/ Return(q)

VCStep == VCCall \/ VCImportDone \/ VCHealthCall \/ VCHealthReturn

\* Query calls on the client do not overlap.
Next ==
    \/ \E q \in Procs : NoneActive(q) /\ Call(q)
    \/ \E q \in Procs : QueryStep(q)
    \/ VCStep

Spec == Init /\ [][Next]_vars

\* Query calls on the client may overlap: each generator held is the
\* generator of one invocation.
NextOverlap ==
    \/ \E q \in Procs : inv[q] = 0 /\ Call(q)
    \/ \E q \in Procs : QueryStep(q)

SpecOverlap == Init /\ [][NextOverlap]_vars

\* Query calls on the client may overlap, and every consumer stops at the
\* first event (or before it): the steps of query up to its first yield.
NextRace ==
    \/ \E q \in Procs : inv[q] = 0 /\ Call(q)
    \/ \E q \in Procs : Begin(q)
    \/ \E q \in Procs : ImportDone(q)
    \/ \E q \in Procs : Construct(q)
    \/ \E q \in Procs : Acquire(q)
    \/ \E q \in Procs : CreateReturn(q)
    \/ \E q \in Procs : Return(q)

SpecRace == Init /\ [][NextRace]_vars

\* The steps of a query whose prompt is answered with one part at most.
BriefStep(q) ==
    \/ Begin(q)
    \/ ImportDone(q)
    \/ Construct(q)
    \/ Acquire(q)
    \/ CreateReturn(q)
    \/ SendPrompt(q)
    \/ PromptReturn(q) /\ Len(promptResp'[q].parts) <= 1
    \/ NextPart(q)
    \/ Complete(q)
    \/ Return(q)

HCStep == HCImportDone \/ HCConstruct \/ HCHealthCall \/ HCHealthReturn

\* query and healthCheck on one client; the calls do not overlap; prompts
\* are answered with one part at most.
NextClient ==
    \/ \E q \in Procs : NoneActive(q) /\ hcPc \in {"idle", "done"} /\ Call(q)
    \/ \E q \in Procs : BriefStep(q)
    \/ (\A q \in Procs : Free(q)) /\ HCCall
    \/ HCStep

SpecClient == Init /\ [][NextClient]_vars

\* query and listModels on one client; query calls do not overlap, and
\* listModels is called at any moment.
NextModels ==
    \/ \E q \in Procs : NoneActive(q) /\ Call(q)
    \/ \E q \in Procs : BriefStep(q)
    \/ ListModels

SpecModels == Init /\ [][NextModels]_vars

\* query, healthCheck and listModels on one client: query and healthCheck
\* calls do not overlap, healthCheck is called once the client holds a
\* session id (it then finds the handle cached), and listModels is called
\* at any moment.
NextSession ==
    \/ \E q \in Procs : NoneActive(q) /\ hcPc \in {"idle", "done"} /\ Call(q)
    \/ \E q \in Procs : BriefStep(q)
    \/ (\A q \in Procs : Free(q)) /\ ~Falsy(sessionId) /\ HCCall
    \/ HCHealthCall
    \/ HCHealthReturn
    \/ ListModels

SpecSession == Init /\ [][NextSession]_vars

\* One query, of any request, answered with one part at most.
NextPrompt ==
    \/ nQueries = 0 /\ \E q \in Procs, o \in Requests : CallWith(q, o)
    \/ \E q \in Procs : BriefStep(q)

SpecPrompt == Init /\ [][NextPrompt]_vars

\* The host calls init and shutdown.
NextPlugin ==
    \/ \E c \in Hosts, fails \in {"none", "provider", "schema"} :
          PluginInit(c, fails)
    \/ PluginShutdown

SpecPlugin == Init /\ [][NextPlugin]_vars

\* ------------------------------------------------------------ properties

IsInit(e) == e.type = "system" /\ e.subtype = "init"

InitCount(q) == Cardinality({ i \in 1..Len(events[q]) : IsInit(events[q][i]) })

\* session.create returned a usable (non-empty) id to the invocation of q.
CreateGaveId(q) ==
    createResp[q].kind = "data" /\ createResp[q].id \notin {Undefined, ""}

IssuedCall(q, op) ==
    \E i \in 1..Len(calls) : calls[i].inv = inv[q] /\ calls[i].op = op

\* C1: when session.create returns an id to a query on a client without a
\* session, the first event the query yields is the system/init event, its
\* session_id is the id session.create returned, and every assistant event
\* comes after it.
C1_InitFirstWithCreatedId ==
    \A q \in Procs :
        CreateGaveId(q) =>
            /\ Len(events[q]) >= 1
            /\ events[q][1] = [type |-> "system", subtype |-> "init",
                               session_id |-> createResp[q].id]
            /\ \A i \in 1..Len(events[q]) :
                   events[q][i].type = "assistant" => i > 1

C1_Witness ==
    \E q \in Procs :
        /\ CreateGaveId(q)
        /\ createResp[q].id = "s2"
        /\ Len(events[q]) >= 2
        /\ events[q][2].type = "assistant"

\* The assistant event the response translation owes for one part.
ExpectedAssistant(part) ==
    IF part.type = "text"
    THEN [type |-> "assistant",
          message |-> [content |-> << [type |-> "text", text |-> part.text] >>]]
    ELSE [type |-> "assistant",
          message |-> [content |-> << [type |-> "tool_use", name |-> part.name] >>]]

Translatable(part) == part.type \in {"text", "tool_use", "tool_call"}

\* The events owed for a whole parts sequence, in its order.
ExpectedAssistants(parts) ==
    LET kept == SelectSeq(parts, Translatable)
    IN  [i \in 1..Len(kept) |-> ExpectedAssistant(kept[i])]

\* C2: a query that ran to completion on a prompt response with data has
\* yielded exactly: one system/init event, then one assistant event per part
\* of type text, tool_use or tool_call in the order of the parts, then one
\* result event with subtype success and zero cost.
C2_ExactEventSequence ==
    \A q \in Procs :
        (pc[q] = "done" /\ promptResp[q].kind = "data") =>
            /\ Len(events[q]) >= 2
            /\ IsInit(events[q][1])
            /\ SubSeq(events[q], 2, Len(events[q]) - 1)
                 = ExpectedAssistants(promptResp[q].parts)
            /\ events[q][Len(events[q])]
                 = [type |-> "result", subtype |-> "success", total_cost_usd |-> 0]

C2_Witness ==
    \E q \in Procs :
        /\ pc[q] = "done"
        /\ promptResp[q].kind = "data"
        /\ Len(promptResp[q].parts) = 2
        /\ promptResp[q].parts[1].type = "tool_call"
        /\ promptResp[q].parts[2].type = "text"
        /\ Len(events[q]) = 4

\* C3 as stated: a query call that issues no session.create (it reuses the
\* session the client holds) yields no system/init event.
C3_Original_NoInitOnReuse ==
    \A q \in Procs :
        (inv[q] # 0 /\ ~IssuedCall(q, "create")) => InitCount(q) = 0

\* C3 amended: a query call that reuses the session the client holds issues
\* no session.create and yields exactly one system/init event, first, with
\* the held session id; a call that creates the session yields one as well.
C3_InitOnReuseToo ==
    \A q \in Procs :
        /\ acquired[q] = "reused" =>
              /\ ~IssuedCall(q, "create")
              /\ InitCount(q) = 1
              /\ events[q][1] = [type |-> "system", subtype |-> "init",
                                 session_id |-> sessionId]
        /\ acquired[q] = "created" => InitCount(q) = 1

C3_Witness ==
    \E q \in Procs :
        /\ acquired[q] = "reused"
        /\ pc[q] = "done"
        /\ inv[q] = 2
        /\ Len(events[q]) = 3

\* The session id the invocation of q acquired.
AcquiredId(q) == IF acquired[q] = "created" THEN createResp[q].id ELSE sessionId

\* C4: an invocation that acquired a session id (created or reused) has
\* yielded exactly one system/init event, with that id; while the generator
\* is suspended at that yield no session.prompt has been called, and a
\* consumer that stops there leaves the invocation without any prompt call.
C4_InitBeforePrompt ==
    \A q \in Procs :
        /\ acquired[q] \in {"created", "reused"} =>
              /\ InitCount(q) = 1
              /\ events[q][1].session_id = AcquiredId(q)
        /\ IssuedCall(q, "prompt") =>
              /\ acquired[q] \in {"created", "reused"}
              /\ pc[q] # "yieldInit"
              /\ ~(pc[q] = "returned" /\ Len(events[q]) = 1)

C4_Witness ==
    \E q \in Procs :
        /\ acquired[q] = "created"
        /\ pc[q] = "returned"
        /\ events[q] = << InitEvent("s1") >>
        /\ ~IssuedCall(q, "prompt")

\* C5: in a sequence of non-overlapping queries, once session.create has
\* returned an id to a query, no later query calls session.create, and every
\* session.prompt of a later query is addressed to that id (also when the
\* earlier query's own prompt failed).
C5_SessionCreatedOnce ==
    \A i, j \in 1..Len(calls) :
        ( /\ calls[i].op = "create"
          /\ calls[i].returned \notin {Undefined, ""}
          /\ calls[j].inv > calls[i].inv ) =>
            /\ calls[j].op # "create"
            /\ calls[j].op = "prompt" => calls[j].path = calls[i].returned

C5_Witness ==
    /\ Len(calls) = 3
    /\ calls[1].op = "create" /\ calls[1].returned = "s2"
    /\ calls[2].op = "prompt" /\ calls[2].inv = calls[1].inv
    /\ calls[2].outcome = "rejected"
    /\ calls[3].op = "prompt" /\ calls[3].inv > calls[1].inv
    /\ calls[3].path = "s2"

\* The message of what the backend threw.
ThrownMessage(t) == IF t.isError THEN t.message ELSE t.value

\* C6: a query whose session.create or session.prompt threw has ended by
\* raising one error, 'OpenCode query failed: ' followed by the original
\* message; its events are none (create threw) or the init event alone
\* (prompt threw), so no result event and nothing after the failure.
C6_FailureRaisesOneTranslatedError ==
    \A q \in Procs :
        /\ createResp[q].kind = "throw" =>
              /\ pc[q] = "failed"
              /\ raised[q] = << "OpenCode query failed: "
                                  \o ThrownMessage(createResp[q].thrown) >>
              /\ events[q] = << >>
        /\ promptResp[q].kind = "throw" =>
              /\ pc[q] = "failed"
              /\ raised[q] = << "OpenCode query failed: "
                                  \o ThrownMessage(promptResp[q].thrown) >>
              /\ Len(events[q]) = 1
              /\ IsInit(events[q][1])

C6_Witness ==
    \E q \in Procs :
        /\ promptResp[q].kind = "throw"
        /\ ~promptResp[q].thrown.isError
        /\ raised[q] = << "OpenCode query failed: boom" >>
        /\ Len(events[q]) = 1

\* session.create returned without an id: no data, or data without an id.
CreateGaveNoId(q) ==
    \/ createResp[q].kind = "nodata"
    \/ createResp[q].kind = "data" /\ createResp[q].id = Undefined

\* C7: a query whose session.create returned without an id has failed with
\* the session-creation error, has yielded no event at all and has not
\* called session.prompt.
C7_NoIdFailsBeforeInit ==
    \A q \in Procs :
        CreateGaveNoId(q) =>
            /\ pc[q] = "failed"
            /\ raised[q] = << "OpenCode query failed: Failed to create OpenCode session" >>
            /\ events[q] = << >>
            /\ ~IssuedCall(q, "prompt")

C7_Witness ==
    \E q \in Procs :
        /\ createResp[q].kind = "data"
        /\ createResp[q].id = Undefined
        /\ pc[q] = "failed"

\* C8: a query whose session.prompt returned a response without data has
\* completed normally: no error raised, and no event after the init event.
C8_NoDataEndsQuietly ==
    \A q \in Procs :
        promptResp[q].kind = "nodata" =>
            /\ pc[q] = "done"
            /\ raised[q] = << >>
            /\ Len(events[q]) = 1
            /\ IsInit(events[q][1])

C8_Witness ==
    \E q \in Procs :
        /\ promptResp[q].kind = "nodata"
        /\ pc[q] = "done"
        /\ events[q] = << InitEvent("s1") >>

\* C9: validateCredentials never raises; it returns true when the health
\* call returns healthy = true, false when it returns healthy = false, and
\* true when the SDK load or the health call throws.
C9_ValidateCredentialsOptimistic ==
    /\ vcOutcome \in {"none", "true", "false"}
    /\ vcPc = "done" =>
          /\ vcOutcome \in {"true", "false"}
          /\ (vcResp.kind = "data" /\ vcResp.healthy = "true") => vcOutcome = "true"
          /\ (vcResp.kind = "data" /\ vcResp.healthy = "false") => vcOutcome = "false"
          /\ vcResp.kind = "throw" => vcOutcome = "true"
          /\ vcResp.kind = "none" => vcOutcome = "true"

C9_Witness ==
    /\ vcPc = "done"
    /\ vcResp.kind = "throw"
    /\ vcOutcome = "true"

\* C10 as stated: when the health call returns without throwing and its
\* payload has no data field or no healthy flag, validateCredentials
\* returns true.
C10_MalformedHealthReturnsTrue ==
    ( /\ vcPc = "done"
      /\ \/ vcResp.kind = "nodata"
         \/ vcResp.kind = "data" /\ vcResp.healthy = Undefined ) =>
        vcOutcome = "true"

\* C11: healthCheck never raises; it returns true exactly when the health
\* call returned data.healthy = true, and false when the SDK load or the
\* health call threw, when data is absent and when healthy is not true.
C11_HealthCheckTrueOnlyWhenHealthy ==
    /\ hcOutcome \in {"none", "true", "false"}
    /\ hcPc = "done" =>
          /\ hcOutcome \in {"true", "false"}
          /\ hcOutcome = "true" <=>
                (hcResp.kind = "data" /\ hcResp.healthy = "true")
          /\ hcResp.kind \in {"none", "throw", "nodata"} => hcOutcome = "false"
          /\ (hcResp.kind = "data" /\ hcResp.healthy = "false") =>
                hcOutcome = "false"

C11_Witness ==
    /\ hcPc = "done"
    /\ hcResp.kind = "throw"
    /\ hcOutcome = "false"
    /\ nQueries > 0

\* The request of the invocation a backend call belongs to.
RequestOf(call) == opts[CHOOSE q \in Procs : inv[q] = call.inv]

IsPrompt(call) == call.op = "prompt"

\* The names owed for the a2aServers entries: servers in order, each one's
\* tools in order.
RECURSIVE ExpectedMcpNames(_)
ExpectedMcpNames(entries) ==
    IF entries = << >> THEN << >>
    ELSE [k \in 1..Len(Head(entries).tools) |->
            "mcp__" \o Head(entries).name \o "__" \o Head(entries).tools[k]]
         \o ExpectedMcpNames(Tail(entries))

ExpectedTools(o) == ExpectedMcpNames(o.a2aServers.list) \o o.allowedTools.list

\* C12: the enabledTools list of a session.prompt body is the mcp names of
\* the a2aServers entries (servers in order, tools in order) followed by the
\* allowedTools entries in order, duplicates kept; when that concatenation
\* is not empty the field is sent.
C12_EnabledToolsConcatenation ==
    \A i \in 1..Len(calls) :
        IsPrompt(calls[i]) =>
            /\ calls[i].body.enabledTools.given =>
                  calls[i].body.enabledTools.list = ExpectedTools(RequestOf(calls[i]))
            /\ ExpectedTools(RequestOf(calls[i])) # << >> =>
                  calls[i].body.enabledTools.given

C12_Witness ==
    \E i \in 1..Len(calls) :
        /\ IsPrompt(calls[i])
        /\ calls[i].body.enabledTools.given
        /\ calls[i].body.enabledTools.list
             = << "mcp__s2__write", "mcp__s1__read", "mcp__s1__read" >>
        /\ RequestOf(calls[i]).allowedTools.list = << "mcp__s1__read" >>

\* C13 as stated: when the names derived from a2aServers and allowedTools
\* are both empty (a2aServers with servers but no tools included), the body
\* of session.prompt carries no enabledTools field.
C13_NoFieldWhenBothEmpty ==
    \A i \in 1..Len(calls) :
        (IsPrompt(calls[i]) /\ ExpectedTools(RequestOf(calls[i])) = << >>) =>
            ~calls[i].body.enabledTools.given

\* s begins with prefix.
HasPrefix(s, prefix) == \E n \in 0..Len(s) : SubSeq(s, 1, n) = prefix

RECURSIVE Unlines(_)
Unlines(lines) ==
    IF lines = << >> THEN "" ELSE Head(lines) \o "\n" \o Unlines(Tail(lines))

\* The text owed for a request: with K images, the marker line, a line per
\* image numbered from 1, an empty line, the prompt.
ExpectedText(o) ==
    LET K == Len(o.images.list)
    IN  IF K = 0 THEN o.prompt
        ELSE Unlines(<< "[User has shared " \o ToString(K) \o " image(s)]" >>
                     \o [n \in 1..K |->
                           "[Image " \o ToString(n) \o "]: " \o o.images.list[n]]
                     \o << "" >>)
             \o o.prompt

\* C15: the body of session.prompt has one part, of type text; for a request
\* with K >= 1 images its text is the marker '[User has shared K image(s)]',
\* one line '[Image N]: url' per image for N = 1..K in order, and the
\* prompt; without images (absent or empty) it is the prompt itself.
C15_PromptTextWithImages ==
    \A i \in 1..Len(calls) :
        IsPrompt(calls[i]) =>
            calls[i].body.parts
              = << [type |-> "text", text |-> ExpectedText(RequestOf(calls[i]))] >>

C15_Witness ==
    \E i \in 1..Len(calls) :
        /\ IsPrompt(calls[i])
        /\ RequestOf(calls[i]).images.list = << "b.png", "a.png" >>
        /\ calls[i].body.parts[1].text
             = "[User has shared 2 image(s)]\n[Image 1]: b.png\n[Image 2]: a.png\n\nHello"

\* C16: a client just created has made no backend call and holds no handle;
\* over query and healthCheck calls that do not overlap, at most one handle
\* is constructed, not before the SDK loaded, and every backend call is made
\* on it.
C16_HandleConstructedOnce ==
    /\ (nQueries = 0 /\ nHealth = 0) =>
          (calls = << >> /\ nHandles = 0 /\ client = 0)
    /\ nHandles <= 1
    /\ ~OpencodeSDK => nHandles = 0
    /\ client = nHandles
    /\ \A i \in 1..Len(calls) : calls[i].handle = 1

C16_Witness ==
    /\ 1 \in sdkMisses
    /\ nHandles = 1
    /\ Len(calls) >= 3
    /\ calls[1].op = "health"
    /\ calls[2].op = "create"
    /\ calls[Len(calls)].op = "prompt"
    /\ calls[Len(calls)].inv = 3

\* C17: shutdown makes one unregistration per cleanup, in the reverse of the
\* order the cleanups were pushed and whether or not one of them throws, so
\* after a whole init: unregisterConfigSchema('provider-opencode'), then
\* unregisterLLMProvider('opencode'); it does not raise, and leaves the
\* cleanup list empty and ctx null.
C17_ShutdownReverseOrder ==
    /\ [](lastCall.op = "shutdown" =>
            (~lastCall.raised /\ cleanups = << >> /\ ctx = Null))
    /\ [][(lastCall'.op = "shutdown" /\ cleanups # << >>) =>
            /\ Len(host') = Len(host) + Len(cleanups)
            /\ SubSeq(host', 1, Len(host)) = host
            /\ \A k \in 1..Len(cleanups) :
                  LET made == host'[Len(host) + k]
                      kind == cleanups[Len(cleanups) + 1 - k]
                  IN  /\ made.ctx = ctx
                      /\ kind = "schema" =>
                            /\ made.op = "unregisterConfigSchema"
                            /\ made.name = "provider-opencode"
                      /\ kind = "provider" =>
                            /\ made.op = "unregisterLLMProvider"
                            /\ made.name = "opencode"
            /\ cleanups = << "provider", "schema" >> =>
                  /\ host'[Len(host) + 1].op = "unregisterConfigSchema"
                  /\ host'[Len(host) + 2].op = "unregisterLLMProvider"]_vars

C17_Witness ==
    /\ lastCall.op = "shutdown"
    /\ Len(host) = 4
    /\ host[1].op = "registerLLMProvider"
    /\ host[2].op = "registerConfigSchema"
    /\ host[3].op = "unregisterConfigSchema" /\ host[3].threw
    /\ host[4].op = "unregisterLLMProvider"
    /\ cleanups = << >>
    /\ ctx = Null

\* C18: whatever the state of the client, listModels returns the list
\* claude-3-5-sonnet, claude-3-5-haiku, gpt-4o, gpt-4o-mini, and the step
\* makes no backend call, constructs no handle and leaves the session id.
C18_ListModelsFixedAndPure ==
    /\ [](models \in { << >>,
                       << "claude-3-5-sonnet", "claude-3-5-haiku", "gpt-4o",
                          "gpt-4o-mini" >> })
    /\ [][models' # models =>
            /\ models' # << >>
            /\ calls' = calls
            /\ nHandles' = nHandles
            /\ client' = client
            /\ sessionId' = sessionId]_vars

C18_Witness ==
    /\ models = << "claude-3-5-sonnet", "claude-3-5-haiku", "gpt-4o",
                   "gpt-4o-mini" >>
    /\ calls = << >>
    /\ sdkMisses = { 1 }
    /\ \E q \in Procs : inv[q] = 2 /\ pc[q] = "loaded"

\* C19: a query whose SDK import failed has raised the missing-dependency
\* error as it is (not translated), has yielded no event and made no backend
\* call; the failure changes neither the SDK cache nor the handle, and a
\* query that begins with neither cached imports again.
C19_MissingSDKRaisedUntranslated ==
    /\ [](\A q \in Procs :
            inv[q] \in sdkMisses =>
                /\ pc[q] = "failed"
                /\ raised[q] = << "OpenCode SDK not installed. Run: npm install @opencode-ai/sdk" >>
                /\ events[q] = << >>
                /\ ~IssuedCall(q, "create")
                /\ ~IssuedCall(q, "prompt"))
    /\ [][sdkMisses' # sdkMisses =>
            (OpencodeSDK' = OpencodeSDK /\ client' = client /\ calls' = calls)]_vars
    /\ [][\A q \in Procs :
            ( /\ pc[q] = "created"
              /\ pc'[q] \notin {"created", "returned"}
              /\ ~OpencodeSDK
              /\ client = 0 ) => pc'[q] = "importing"]_vars

C19_Witness ==
    \E q \in Procs :
        /\ 1 \in sdkMisses
        /\ inv[q] = 2
        /\ pc[q] = "importing"
        /\ ~OpencodeSDK
        /\ calls = << >>

\* C20: a query that finds the client without a session id calls
\* session.create itself, also while the session.create of another
\* invocation is pending; so two overlapping queries on a fresh client can
\* both create a session.
C20_EveryQueryWithoutSessionCreates ==
    [][\A q \in Procs :
          (pc[q] = "gotClient" /\ pc'[q] # "gotClient" /\ Falsy(sessionId)) =>
              /\ pc'[q] = "creating"
              /\ Len(calls') = Len(calls) + 1
              /\ calls'[Len(calls')].op = "create"
              /\ calls'[Len(calls')].inv = inv[q]]_vars

C20_Witness ==
    /\ nQueries = 2
    /\ Len(calls) >= 2
    /\ calls[1].op = "create" /\ calls[1].inv = 1
    /\ calls[2].op = "create" /\ calls[2].inv = 2
    /\ calls[1].returned = "s1"
    /\ calls[2].returned = "s2"
    /\ \A q \in Procs : acquired[q] = "created"

\* C21 as stated: whatever the interleaving of the query calls on a client,
\* the session.prompt call of an invocation is addressed to the session id
\* its system/init event announced.
C21_PromptAddressedToAnnouncedId ==
    \A q \in Procs :
        \A i \in 1..Len(calls) :
            (calls[i].op = "prompt" /\ calls[i].inv = inv[q]) =>
                /\ Len(events[q]) >= 1
                /\ IsInit(events[q][1])
                /\ calls[i].path = events[q][1].session_id

\* A session.create call that gave the client no usable id: it was rejected,
\* or resolved without an id or with an empty one.
CreatedNothing(call) ==
    /\ call.op = "create"
    /\ \/ call.outcome = "rejected"
       \/ call.outcome = "resolved" /\ call.returned \in {Undefined, ""}

\* The backend calls of queries, in order (the health calls left out).
IsQueryCall(call) == call.op \in {"create", "prompt"}

QueryCalls == SelectSeq(calls, IsQueryCall)

\* C22: among queries that do not overlap, a query whose session.create
\* threw or returned no id makes no further backend call and leaves the
\* client without a session id, and the next query that reaches the backend
\* calls session.create first; once the client holds a session id, no step
\* of a query, of healthCheck or of listModels changes it.
C22_FailedCreationRetriedIdKept ==
    /\ [](\A i \in 1..Len(QueryCalls) :
            CreatedNothing(QueryCalls[i]) =>
                /\ i = Len(QueryCalls) => Falsy(sessionId)
                /\ i < Len(QueryCalls) =>
                      /\ QueryCalls[i + 1].inv > QueryCalls[i].inv
                      /\ QueryCalls[i + 1].op = "create")
    /\ [][~Falsy(sessionId) => sessionId' = sessionId]_vars

C22_Witness ==
    /\ Len(calls) = 5
    /\ calls[1].op = "create" /\ calls[1].outcome = "rejected"
    /\ calls[2].op = "create" /\ calls[2].returned = Undefined
    /\ calls[2].outcome = "resolved"
    /\ calls[3].op = "create" /\ calls[3].returned = "s1"
    /\ calls[4].op = "prompt" /\ calls[4].outcome = "resolved"
    /\ calls[5].op = "health" /\ calls[5].outcome = "resolved"
    /\ models # << >>
    /\ sessionId = "s1"

\* The calls of one operation made on host context c that did not throw.
HostCount(op, c) ==
    Cardinality({ i \in 1..Len(host) :
                    host[i].op = op /\ host[i].ctx = c /\ ~host[i].threw })

\* The unregistration calls of one operation made on host context c.
UnregisterCount(op, c) ==
    Cardinality({ i \in 1..Len(host) : host[i].op = op /\ host[i].ctx = c })

\* C23 as stated: after a shutdown, every registration init made on a host
\* context has been matched by one unregistration on that same context
\* (init called twice, with different contexts, included); a shutdown with
\* no init since the last one makes no unregistration.
C23_RegistrationsMatchedPerHost ==
    /\ lastCall.op = "shutdown" =>
          \A c \in Hosts :
              /\ UnregisterCount("unregisterLLMProvider", c)
                   = HostCount("registerLLMProvider", c)
              /\ UnregisterCount("unregisterConfigSchema", c)
                   = HostCount("registerConfigSchema", c)
    /\ lastCall.op = "none" => host = << >>

\* C24 as stated: whatever the interleaving of overlapping first calls on a
\* client, at most one backend handle is constructed for it and every call
\* is made on the same handle.
C24_OneHandleUnderOverlap ==
    /\ nHandles <= 1
    /\ \A i, j \in 1..Len(calls) : calls[i].handle = calls[j].handle
    /\ \A q \in Procs : lclient[q] \in {0, client}

====
